---- MODULE Spec2Model ----
(***************************************************************************)
(* A model of the temporal-flow-server history service                     *)
(* (src/src/temporal.service.ts) and of its GET /workflow handler:         *)
(*                                                                         *)
(*   - parseTemporalHistory: one left-to-right pass over the events of an  *)
(*     execution, building chronologicalList, workflowMap, workflowStack;  *)
(*   - getWorkflowData: the paginated fetch of one execution's events;     *)
(*   - getRootWorkflowData: root fetch + parse, then one fetch + parse per *)
(*     childWorkflow item of the root timeline.                            *)
(*                                                                         *)
(* Spec runs the parser one event per step over every event sequence of up *)
(* to MaxEvents events.  SpecLog runs it over the well-formed histories of *)
(* one workflow of up to MaxLog events.  SpecFetch runs GET /workflow and  *)
(* getRootWorkflowData against an upstream that answers every page request *)
(* nondeterministically.                                                   *)
(*                                                                         *)
(* Left out of the items: runId, workflowType, parent ids, payload and     *)
(* workflowTaskCompletedEventId, which the parser copies from the event    *)
(* and never reads back.                                                   *)
(***************************************************************************)
EXTENDS Integers, Sequences, FiniteSets, TLC

\* ------------------------------------------------------------------ bounds

\* Number of events of one parsed history.
MaxEvents == 4

\* Number of pages the upstream serves for one execution before it must
\* return a last page.
MaxPages == 3

\* Events of a well-formed log (one workflow from its start to its end).
MaxLog == 6

\* ------------------------------------------------------------- input domains

WorkflowIds == {"wfA", "wfB"}

\* The root execution getRootWorkflowData is asked for.
RootId == "wfRoot"

AllWorkflowIds == WorkflowIds \cup {RootId}
ActivityIds == {"act1", "act2"}

\* workflowStack[workflowStack.length - 1] of an empty stack, and a field never set.
Undefined == "undefined"

\* The shape of an event's kind-specific attributes object:
\*   full    - present with every field;
\*   partial - present, but the nested object the handler dereferences
\*             (workflowType, activityType, workflowExecution) is missing;
\*   absent  - the attributes object itself is missing.
AttrShapes == {"full", "partial", "absent"}

WorkflowTerminalKinds ==
    {"WORKFLOW_EXECUTION_COMPLETED", "WORKFLOW_EXECUTION_FAILED",
     "WORKFLOW_EXECUTION_TIMED_OUT", "WORKFLOW_EXECUTION_CANCELED",
     "WORKFLOW_EXECUTION_TERMINATED"}

ActivityTerminalKinds ==
    {"ACTIVITY_TASK_COMPLETED", "ACTIVITY_TASK_FAILED",
     "ACTIVITY_TASK_TIMED_OUT", "ACTIVITY_TASK_CANCELED"}

WorkflowTerminalStatuses ==
    {"COMPLETED", "FAILED", "TIMED_OUT", "CANCELED", "TERMINATED"}

ActivityTerminalStatuses == {"COMPLETED", "FAILED", "TIMED_OUT", "CANCELED"}

\* An event as the parser reads it.  workflowId / activityId are the ids the
\* event's attributes carry (or, for ACTIVITY_TASK_STARTED and the activity
\* terminal events, the id of the activity the event belongs to upstream);
\* fields a kind does not have are Undefined.
MkEvent(kind, wid, aid, shape) ==
    [eventType |-> kind, eventId |-> 0, eventTime |-> 0,
     workflowId |-> wid, activityId |-> aid, attrs |-> shape]

\* The value of the loop variable before the first event.
NoEvent == MkEvent("NONE", Undefined, Undefined, "absent")

\* ------------------------------------------------------------- parser state

VARIABLES
    chronologicalList,  \* parseTemporalHistory: the output list (items, in order)
    workflowMap,        \* workflow id -> position of its Workflow object in the list, 0: no entry
    workflowStack,      \* ids of the workflows in scope, top last
    thrown,             \* parseTemporalHistory raised (a TypeError) and the parse is over
    event,              \* the event the loop processed last
    history,            \* the events of a well-formed log processed so far
    \* ---- getRootWorkflowData / getWorkflowData
    pc,                 \* where getRootWorkflowData is
    target,             \* the workflow id getWorkflowData is fetching
    allEvents,          \* getWorkflowData: events accumulated so far
    nextPageToken,      \* getWorkflowData: the token of the last page read
    pages,              \* the pages the upstream served to the running getWorkflowData
    requests,           \* the requests the running getWorkflowData sent: the token each url carries
    failure,            \* the error getWorkflowData or the root parse raised
    fetched,            \* the workflow ids getWorkflowData was called for, in call order
    rootItems,          \* rootWorkflowChronologicalItems
    childWorkflowsMap,  \* child workflow id -> [present, items]: the Record, total over the ids
    cursor,             \* the for-of position in rootItems, 0 before the loop
    attempted,          \* the loop's outcomes in order: [workflowId, ok]
    response,           \* the upstream's last response: [ok, status]
    httpStatus          \* the status GET /workflow answered with, 0 while unanswered

parserVars == <<chronologicalList, workflowMap, workflowStack, thrown, event, history>>
fetchVars == <<pc, target, allEvents, nextPageToken, pages, requests, failure,
               fetched, rootItems, childWorkflowsMap, cursor, attempted,
               response, httpStatus>>
vars == <<parserVars, fetchVars>>

\* ---------------------------------------------------------------- helpers

Top(stack) == IF Len(stack) = 0 THEN Undefined ELSE stack[Len(stack)]

Pop(stack) == IF Len(stack) = 0 THEN stack ELSE SubSeq(stack, 1, Len(stack) - 1)

\* workflowMap[id]: 0 when the id has no entry (also for an undefined id).
Lookup(map, id) == IF id \in DOMAIN map THEN map[id] ELSE 0

\* Mutant of ScanBack: the scan runs forward and stops at the first match.
ScanFront(list, i, top, open) ==
    LET S == {k \in 1..i : /\ list[k].type = "activity"
                            /\ list[k].workflowId = top
                            /\ list[k].status \in open}
    IN  IF S = {} THEN 0 ELSE CHOOSE k \in S : \A m \in S : k <= m

\* The backward scan for (let i = length - 1; i >= 0; i--) with its break:
\* the highest position at or below i of an activity item of workflow `top`
\* whose status is in `open`; 0 when the loop runs out.
RECURSIVE ScanBack(_, _, _, _)
ScanBack(list, i, top, open) ==
    IF i = 0 THEN 0
    ELSE IF /\ list[i].type = "activity"
            /\ list[i].workflowId = top
            /\ list[i].status \in open
         THEN i
         ELSE ScanBack(list, i - 1, top, open)

WorkflowTerminalStatus(kind) ==
    CASE kind = "WORKFLOW_EXECUTION_COMPLETED" -> "COMPLETED"
      [] kind = "WORKFLOW_EXECUTION_FAILED" -> "FAILED"
      [] kind = "WORKFLOW_EXECUTION_TIMED_OUT" -> "TIMED_OUT"
      [] kind = "WORKFLOW_EXECUTION_CANCELED" -> "CANCELED"
      [] kind = "WORKFLOW_EXECUTION_TERMINATED" -> "TERMINATED"

ActivityTerminalStatus(kind) ==
    CASE kind = "ACTIVITY_TASK_COMPLETED" -> "COMPLETED"
      [] kind = "ACTIVITY_TASK_FAILED" -> "FAILED"
      [] kind = "ACTIVITY_TASK_TIMED_OUT" -> "TIMED_OUT"
      [] kind = "ACTIVITY_TASK_CANCELED" -> "CANCELED"

\* A Workflow object (type 'workflow' or 'childWorkflow').  Times are 0 until set.
NewWorkflow(type, wid, ev) ==
    [type |-> type, workflowId |-> wid, activityId |-> Undefined,
     status |-> "RUNNING", scheduleTime |-> 0, startTime |-> ev.eventTime,
     endTime |-> 0, relatedEventIds |-> <<ev.eventId>>]

\* An Activity object.
NewActivity(wid, ev) ==
    [type |-> "activity", workflowId |-> wid, activityId |-> ev.activityId,
     status |-> "SCHEDULED", scheduleTime |-> ev.eventTime, startTime |-> 0,
     endTime |-> 0, relatedEventIds |-> <<ev.eventId>>]

\* The parser's state as one value: st.list, st.map, st.stack, st.thrown.
EmptyParse ==
    [list |-> <<>>, map |-> [w \in AllWorkflowIds |-> 0], stack |-> <<>>, thrown |-> FALSE]

\* item fields set by an update in place (the object is shared by the list and the map)
Touch(item, ev) == [item EXCEPT !.relatedEventIds = Append(@, ev.eventId)]

\* ---------------------------------------------------------- event handlers

\* case WORKFLOW_EXECUTION_STARTED.  attrs.workflowType.name of a missing
\* workflowType raises before anything is registered.
HandleWorkflowExecutionStarted(st, ev) ==
    IF ev.attrs = "absent" THEN st
    ELSE IF ev.attrs = "partial" THEN [st EXCEPT !.thrown = TRUE]
    ELSE [st EXCEPT
            !.list = Append(@, NewWorkflow("workflow", ev.workflowId, ev)),
            !.map = [@ EXCEPT ![ev.workflowId] = Len(st.list) + 1],
            !.stack = Append(@, ev.workflowId)]

\* case WORKFLOW_EXECUTION_COMPLETED / FAILED / TIMED_OUT / CANCELED / TERMINATED
HandleWorkflowExecutionTerminal(st, ev) ==
    LET topWorkflowId == Top(st.stack)
        wf == Lookup(st.map, topWorkflowId)
        closed(item) ==
            [Touch(item, ev) EXCEPT
                !.endTime = ev.eventTime,
                !.status = WorkflowTerminalStatus(ev.eventType)]
    IN  [st EXCEPT
            !.list = IF wf # 0 THEN [@ EXCEPT ![wf] = closed(@)] ELSE @,
            !.stack = Pop(@)]

\* Mutant of HandleActivityTaskScheduled: the guard tests attrs only, not
\* the top of the stack.
HandleActivityTaskScheduledUnscoped(st, ev) ==
    LET topWorkflowId == Top(st.stack)
    IN  IF ev.attrs = "absent" THEN st
        ELSE IF ev.attrs = "partial" THEN [st EXCEPT !.thrown = TRUE]
        ELSE [st EXCEPT !.list = Append(@, NewActivity(topWorkflowId, ev))]

\* case ACTIVITY_TASK_SCHEDULED.  attrs.activityType.name of a missing
\* activityType raises, inside the if (attrs && topWorkflowId).
HandleActivityTaskScheduled(st, ev) ==
    LET topWorkflowId == Top(st.stack)
    IN  IF ev.attrs = "absent" \/ topWorkflowId = Undefined THEN st
        ELSE IF ev.attrs = "partial" THEN [st EXCEPT !.thrown = TRUE]
        ELSE [st EXCEPT !.list = Append(@, NewActivity(topWorkflowId, ev))]

\* Mutant of HandleActivityTaskStarted: the scan also stops at an activity
\* that is already STARTED.
HandleActivityTaskStartedAgain(st, ev) ==
    LET topWorkflowId == Top(st.stack)
        i == ScanBack(st.list, Len(st.list), topWorkflowId, {"SCHEDULED", "STARTED"})
        started(item) ==
            [Touch(item, ev) EXCEPT !.startTime = ev.eventTime, !.status = "STARTED"]
    IN  IF ev.attrs = "absent" \/ i = 0 THEN st
        ELSE [st EXCEPT !.list = [@ EXCEPT ![i] = started(@)]]

\* case ACTIVITY_TASK_STARTED: no field of attrs is read, only its presence.
HandleActivityTaskStarted(st, ev) ==
    LET topWorkflowId == Top(st.stack)
        i == ScanBack(st.list, Len(st.list), topWorkflowId, {"SCHEDULED"})
        started(item) ==
            [Touch(item, ev) EXCEPT !.startTime = ev.eventTime, !.status = "STARTED"]
    IN  IF ev.attrs = "absent" \/ i = 0 THEN st
        ELSE [st EXCEPT !.list = [@ EXCEPT ![i] = started(@)]]

\* Mutant of HandleActivityTaskTerminal: the scan stops at the last activity
\* of the top workflow whatever its status.
HandleActivityTaskTerminalAnyStatus(st, ev) ==
    LET topWorkflowId == Top(st.stack)
        newStatus == ActivityTerminalStatus(ev.eventType)
        i == ScanBack(st.list, Len(st.list), topWorkflowId,
                      {"STARTED", "SCHEDULED"} \cup ActivityTerminalStatuses)
        closed(item) ==
            [Touch(item, ev) EXCEPT !.endTime = ev.eventTime, !.status = newStatus]
    IN  IF i = 0 THEN st
        ELSE [st EXCEPT !.list = [@ EXCEPT ![i] = closed(@)]]

\* case ACTIVITY_TASK_COMPLETED / FAILED / TIMED_OUT / CANCELED: the event's
\* attributes are not checked.
HandleActivityTaskTerminal(st, ev) ==
    LET topWorkflowId == Top(st.stack)
        newStatus == ActivityTerminalStatus(ev.eventType)
        i == ScanBack(st.list, Len(st.list), topWorkflowId, {"STARTED", "SCHEDULED"})
        closed(item) ==
            [Touch(item, ev) EXCEPT !.endTime = ev.eventTime, !.status = newStatus]
    IN  IF i = 0 THEN st
        ELSE [st EXCEPT !.list = [@ EXCEPT ![i] = closed(@)]]

\* Mutant of HandleChildWorkflowExecutionCompleted: the completion of a
\* child also pops the scope stack.
HandleChildCompletedPopping(st, ev) ==
    LET childWorkflow == Lookup(st.map, ev.workflowId)
        closed(item) ==
            [Touch(item, ev) EXCEPT !.endTime = ev.eventTime, !.status = "COMPLETED"]
    IN  IF ev.attrs # "full" \/ childWorkflow = 0 THEN st
        ELSE [st EXCEPT !.list = [@ EXCEPT ![childWorkflow] = closed(@)],
                        !.stack = Pop(@)]

\* Mutant of HandleChildWorkflowExecutionCompleted: the child is resolved
\* through the stack, so that only the workflow on top can be completed.
HandleChildCompletedOnTop(st, ev) ==
    LET childWorkflow == Lookup(st.map, ev.workflowId)
        closed(item) ==
            [Touch(item, ev) EXCEPT !.endTime = ev.eventTime, !.status = "COMPLETED"]
    IN  IF ev.attrs # "full" \/ childWorkflow = 0 \/ Top(st.stack) # ev.workflowId
        THEN st
        ELSE [st EXCEPT !.list = [@ EXCEPT ![childWorkflow] = closed(@)]]

\* case CHILD_WORKFLOW_EXECUTION_COMPLETED: if (attrs && attrs.workflowExecution)
HandleChildWorkflowExecutionCompleted(st, ev) ==
    LET childWorkflow == Lookup(st.map, ev.workflowId)
        closed(item) ==
            [Touch(item, ev) EXCEPT !.endTime = ev.eventTime, !.status = "COMPLETED"]
    IN  IF ev.attrs # "full" \/ childWorkflow = 0 THEN st
        ELSE [st EXCEPT !.list = [@ EXCEPT ![childWorkflow] = closed(@)]]

\* Mutant of HandleChildWorkflowExecutionStarted: the id is pushed onto the
\* stack also when its entry already exists.
HandleChildStartedPushing(st, ev) ==
    LET existingChildWorkflow == Lookup(st.map, ev.workflowId)
        restarted(item) == [Touch(item, ev) EXCEPT !.startTime = ev.eventTime]
    IN  IF ev.attrs # "full" THEN st
        ELSE IF existingChildWorkflow # 0
        THEN [st EXCEPT !.list = [@ EXCEPT ![existingChildWorkflow] = restarted(@)],
                        !.stack = Append(@, ev.workflowId)]
        ELSE [st EXCEPT
                !.list = Append(@, NewWorkflow("childWorkflow", ev.workflowId, ev)),
                !.map = [@ EXCEPT ![ev.workflowId] = Len(st.list) + 1],
                !.stack = Append(@, ev.workflowId)]

\* case CHILD_WORKFLOW_EXECUTION_STARTED: if (attrs && attrs.workflowExecution)
HandleChildWorkflowExecutionStarted(st, ev) ==
    LET existingChildWorkflow == Lookup(st.map, ev.workflowId)
        restarted(item) == [Touch(item, ev) EXCEPT !.startTime = ev.eventTime]
    IN  IF ev.attrs # "full" THEN st
        ELSE IF existingChildWorkflow # 0
        THEN [st EXCEPT !.list = [@ EXCEPT ![existingChildWorkflow] = restarted(@)]]
        ELSE [st EXCEPT
                !.list = Append(@, NewWorkflow("childWorkflow", ev.workflowId, ev)),
                !.map = [@ EXCEPT ![ev.workflowId] = Len(st.list) + 1],
                !.stack = Append(@, ev.workflowId)]

\* Mutant of HandleStartChildWorkflowExecutionInitiated: the existing entry
\* is pushed onto the list again after its update.
HandleInitiatedReappending(st, ev) ==
    LET existingChildWorkflow == Lookup(st.map, ev.workflowId)
        restarted(item) == [Touch(item, ev) EXCEPT !.startTime = ev.eventTime]
    IN  IF ev.attrs = "absent" THEN st
        ELSE IF existingChildWorkflow # 0
        THEN [st EXCEPT !.list = Append([@ EXCEPT ![existingChildWorkflow] = restarted(@)],
                                        restarted(st.list[existingChildWorkflow]))]
        ELSE [st EXCEPT
                !.list = Append(@, NewWorkflow("childWorkflow", ev.workflowId, ev)),
                !.map = [@ EXCEPT ![ev.workflowId] = Len(st.list) + 1]]

\* case START_CHILD_WORKFLOW_EXECUTION_INITIATED: if (attrs); workflowType is
\* read with ?. so a missing one is harmless.
HandleStartChildWorkflowExecutionInitiated(st, ev) ==
    LET existingChildWorkflow == Lookup(st.map, ev.workflowId)
        restarted(item) == [Touch(item, ev) EXCEPT !.startTime = ev.eventTime]
    IN  IF ev.attrs = "absent" THEN st
        ELSE IF existingChildWorkflow # 0
        THEN [st EXCEPT !.list = [@ EXCEPT ![existingChildWorkflow] = restarted(@)]]
        ELSE [st EXCEPT
                !.list = Append(@, NewWorkflow("childWorkflow", ev.workflowId, ev)),
                !.map = [@ EXCEPT ![ev.workflowId] = Len(st.list) + 1]]

\* The switch of the loop body.
ParseEvent(st, ev) ==
    CASE ev.eventType = "WORKFLOW_EXECUTION_STARTED" ->
            HandleWorkflowExecutionStarted(st, ev)
      [] ev.eventType \in WorkflowTerminalKinds ->
            HandleWorkflowExecutionTerminal(st, ev)
      [] ev.eventType = "ACTIVITY_TASK_SCHEDULED" ->
            HandleActivityTaskScheduled(st, ev)
      [] ev.eventType = "ACTIVITY_TASK_STARTED" ->
            HandleActivityTaskStarted(st, ev)
      [] ev.eventType \in ActivityTerminalKinds ->
            HandleActivityTaskTerminal(st, ev)
      [] ev.eventType = "CHILD_WORKFLOW_EXECUTION_COMPLETED" ->
            HandleChildWorkflowExecutionCompleted(st, ev)
      [] ev.eventType = "CHILD_WORKFLOW_EXECUTION_STARTED" ->
            HandleChildWorkflowExecutionStarted(st, ev)
      [] ev.eventType = "START_CHILD_WORKFLOW_EXECUTION_INITIATED" ->
            HandleStartChildWorkflowExecutionInitiated(st, ev)
      [] OTHER -> st

\* for (const event of events) { ... } return chronologicalList; the loop
\* stops at the first event whose handler raises.
RECURSIVE ParseFrom(_, _, _)
ParseFrom(st, events, k) ==
    IF k > Len(events) \/ st.thrown THEN st
    ELSE ParseFrom(ParseEvent(st, events[k]), events, k + 1)

parseTemporalHistory(events) == ParseFrom(EmptyParse, events, 1)

\* ------------------------------------------------- the parser, step by step

ParserState ==
    [list |-> chronologicalList, map |-> workflowMap, stack |-> workflowStack,
     thrown |-> thrown]

NoFailure == [kind |-> "none", status |-> 0]

NoResponse == [ok |-> TRUE, status |-> 0]

FetchIdle ==
    /\ pc = "idle" /\ target = Undefined /\ allEvents = <<>>
    /\ nextPageToken = Undefined /\ pages = <<>> /\ requests = <<>>
    /\ failure = NoFailure /\ fetched = <<>> /\ rootItems = <<>>
    /\ childWorkflowsMap = [w \in AllWorkflowIds |-> [present |-> FALSE, items |-> <<>>]]
    /\ cursor = 0 /\ attempted = <<>>
    /\ response = NoResponse /\ httpStatus = 0

Init ==
    /\ chronologicalList = <<>>
    /\ workflowMap = [w \in AllWorkflowIds |-> 0]
    /\ workflowStack = <<>>
    /\ thrown = FALSE
    /\ event = NoEvent
    /\ history = <<>>
    /\ FetchIdle

\* The loop has a next event: the log is not over and no handler raised.
HasNext == ~thrown /\ event.eventId < MaxEvents

\* One iteration of the loop on the next event of the log.  Event ids count
\* the log's positions and event times increase with them (a causally
\* ordered log), so that every assignment of a time is visible.
Consume(ev) ==
    LET e == [ev EXCEPT !.eventId = event.eventId + 1,
                        !.eventTime = event.eventTime + 1]
        st == ParseEvent(ParserState, e)
    IN  /\ event' = e
        /\ chronologicalList' = st.list
        /\ workflowMap' = st.map
        /\ workflowStack' = st.stack
        /\ thrown' = st.thrown

\* An iteration on an arbitrary next event.
Step(ev) ==
    /\ Consume(ev)
    /\ UNCHANGED <<history, fetchVars>>

WorkflowExecutionStarted ==
    /\ HasNext
    /\ \E w \in WorkflowIds, a \in AttrShapes :
         Step(MkEvent("WORKFLOW_EXECUTION_STARTED", w, Undefined, a))

WorkflowExecutionTerminal ==
    /\ HasNext
    /\ \E k \in WorkflowTerminalKinds : Step(MkEvent(k, Undefined, Undefined, "full"))

ActivityTaskScheduled ==
    /\ HasNext
    /\ \E x \in ActivityIds, a \in AttrShapes :
         Step(MkEvent("ACTIVITY_TASK_SCHEDULED", Undefined, x, a))

ActivityTaskStarted ==
    /\ HasNext
    /\ \E x \in ActivityIds, a \in {"full", "absent"} :
         Step(MkEvent("ACTIVITY_TASK_STARTED", Undefined, x, a))

ActivityTaskTerminal ==
    /\ HasNext
    /\ \E k \in ActivityTerminalKinds, x \in ActivityIds :
         Step(MkEvent(k, Undefined, x, "full"))

\* An activity terminal event that arrives without its attributes object.
ActivityTaskTerminalNoAttributes ==
    /\ HasNext
    /\ Step(MkEvent("ACTIVITY_TASK_COMPLETED", Undefined, Undefined, "absent"))

ChildWorkflowExecutionCompleted ==
    /\ HasNext
    /\ \E w \in WorkflowIds, a \in AttrShapes :
         Step(MkEvent("CHILD_WORKFLOW_EXECUTION_COMPLETED", w, Undefined, a))

ChildWorkflowExecutionStarted ==
    /\ HasNext
    /\ \E w \in WorkflowIds, a \in AttrShapes :
         Step(MkEvent("CHILD_WORKFLOW_EXECUTION_STARTED", w, Undefined, a))

StartChildWorkflowExecutionInitiated ==
    /\ HasNext
    /\ \E w \in WorkflowIds, a \in {"full", "absent"} :
         Step(MkEvent("START_CHILD_WORKFLOW_EXECUTION_INITIATED", w, Undefined, a))

\* default: any other event kind
OtherEvent ==
    /\ HasNext
    /\ Step(MkEvent("WORKFLOW_TASK_SCHEDULED", Undefined, Undefined, "full"))

Next ==
    \/ WorkflowExecutionStarted
    \/ WorkflowExecutionTerminal
    \/ ActivityTaskScheduled
    \/ ActivityTaskStarted
    \/ ActivityTaskTerminal
    \/ ActivityTaskTerminalNoAttributes
    \/ ChildWorkflowExecutionCompleted
    \/ ChildWorkflowExecutionStarted
    \/ StartChildWorkflowExecutionInitiated
    \/ OtherEvent

Spec == Init /\ [][Next]_vars

\* ------------------------------------------------------- well-formed logs
\* The history of one execution as the engine writes it: it starts with
\* WORKFLOW_EXECUTION_STARTED of a workflow A, continues with activity events
\* and child workflow events of other ids, a child's STARTED only after its
\* INITIATED, and ends with one terminal event of the workflow.  Every event
\* carries its attributes.

\* An iteration on the next event of a well-formed log.
Feed(ev) ==
    /\ Consume(ev)
    /\ history' = Append(history, event')
    /\ UNCHANGED fetchVars

\* The log has started, has not ended, and has room for an event before its
\* terminal event.
LogOpen ==
    /\ history # <<>>
    /\ event.eventType \notin WorkflowTerminalKinds
    /\ Len(history) < MaxLog - 1

\* The workflow ids child events of the log may carry.
LogChildIds == WorkflowIds \ {history[1].workflowId}

LogWorkflowStarted ==
    /\ history = <<>> /\ event = NoEvent
    /\ \E w \in WorkflowIds :
         Feed(MkEvent("WORKFLOW_EXECUTION_STARTED", w, Undefined, "full"))

LogActivityScheduled ==
    /\ LogOpen
    /\ \E x \in ActivityIds :
         Feed(MkEvent("ACTIVITY_TASK_SCHEDULED", Undefined, x, "full"))

LogActivityStarted ==
    /\ LogOpen
    /\ \E x \in ActivityIds :
         Feed(MkEvent("ACTIVITY_TASK_STARTED", Undefined, x, "full"))

LogActivityTerminal ==
    /\ LogOpen
    /\ \E k \in ActivityTerminalKinds, x \in ActivityIds :
         Feed(MkEvent(k, Undefined, x, "full"))

LogChildInitiated ==
    /\ LogOpen
    /\ \E w \in LogChildIds :
         Feed(MkEvent("START_CHILD_WORKFLOW_EXECUTION_INITIATED", w, Undefined, "full"))

LogChildStarted ==
    /\ LogOpen
    /\ \E w \in LogChildIds :
         /\ \E i \in 1..Len(history) :
              /\ history[i].eventType = "START_CHILD_WORKFLOW_EXECUTION_INITIATED"
              /\ history[i].workflowId = w
         /\ Feed(MkEvent("CHILD_WORKFLOW_EXECUTION_STARTED", w, Undefined, "full"))

LogChildCompleted ==
    /\ LogOpen
    /\ \E w \in LogChildIds :
         Feed(MkEvent("CHILD_WORKFLOW_EXECUTION_COMPLETED", w, Undefined, "full"))

LogWorkflowTerminal ==
    /\ history # <<>>
    /\ event.eventType \notin WorkflowTerminalKinds
    /\ \E k \in WorkflowTerminalKinds :
         Feed(MkEvent(k, Undefined, Undefined, "full"))

NextLog ==
    \/ LogWorkflowStarted
    \/ LogActivityScheduled
    \/ LogActivityStarted
    \/ LogActivityTerminal
    \/ LogChildInitiated
    \/ LogChildStarted
    \/ LogChildCompleted
    \/ LogWorkflowTerminal

SpecLog == Init /\ [][NextLog]_vars

\* ====================================== getWorkflowData / getRootWorkflowData

\* Continuation tokens a page can carry: none (null or missing), the empty
\* string, and an opaque string with a character a url must escape.
Tokens == {Undefined, "", "a+b"}

\* JavaScript truthiness of a token: while (nextPageToken), nextPageToken ? :
Truthy(tok) == tok \notin {Undefined, ""}

\* encodeURIComponent on the tokens of the model.
encodeURIComponent(tok) == IF tok = "a+b" THEN "a%2Bb" ELSE tok

\* What the upstream reads back from the next_page_token query parameter
\* (percent-decoding, with a raw + read as a space); "" is no token.
QueryToken(q) ==
    CASE q = "a%2Bb" -> "a+b"
      [] q = "a+b" -> "a b"
      [] OTHER -> q

\* Mutant of RequestQuery: the token is appended to the url unencoded.
RequestQueryRaw(tok) == IF Truthy(tok) THEN tok ELSE ""

\* The value the url carries after next_page_token= :
\* nextPageToken ? baseUrl + encodeURIComponent(nextPageToken) : baseUrl
RequestQuery(tok) == IF Truthy(tok) THEN encodeURIComponent(tok) ELSE ""

\* Events a page of the model can hold.
RootStarted == [MkEvent("WORKFLOW_EXECUTION_STARTED", RootId, Undefined, "full")
                   EXCEPT !.eventId = 1, !.eventTime = 1]
RootStartedNoType == [RootStarted EXCEPT !.attrs = "partial"]
InitiatedA == [MkEvent("START_CHILD_WORKFLOW_EXECUTION_INITIATED", "wfA", Undefined, "full")
                   EXCEPT !.eventId = 2, !.eventTime = 2]
InitiatedB == [InitiatedA EXCEPT !.workflowId = "wfB", !.eventId = 3, !.eventTime = 3]

\* data.history.events of one page.
PageEvents ==
    {<<>>, <<RootStartedNoType>>, <<InitiatedB>>, <<RootStarted, InitiatedA>>}

\* response.status of a response that is not ok.
FailureStatuses == {404, 500}

\* Mutant of IsChildItem: every workflow item of the root timeline is fetched.
IsAnyWorkflowItem(item) == item.type # "activity"

\* if (item.type === 'childWorkflow')
IsChildItem(item) == item.type = "childWorkflow"

\* for (const item of rootWorkflowChronologicalItems): the next position
\* after `from` whose item enters the if, 0 when the loop is over.
NextChild(items, from) ==
    LET S == {i \in (from + 1)..Len(items) : IsChildItem(items[i])}
    IN  IF S = {} THEN 0 ELSE CHOOSE i \in S : \A j \in S : i <= j

\* getRootWorkflowData(namespace, rootWorkflowId) is called: it calls
\* getWorkflowData for the root, which starts with no events and no token.
Call ==
    /\ pc = "idle"
    /\ pc' = "fetching"
    /\ target' = RootId
    /\ fetched' = <<RootId>>
    /\ allEvents' = <<>>
    /\ nextPageToken' = Undefined
    /\ pages' = <<>>
    /\ requests' = <<>>
    /\ UNCHANGED <<failure, rootItems, childWorkflowsMap, cursor, attempted,
                   response, httpStatus, parserVars>>

\* One pass of the do-while whose response is ok: the request goes out with
\* the token of the page before, the page's events are appended, and the
\* loop goes on while the page's token is truthy; otherwise allEvents is
\* returned.
PageOk ==
    /\ pc = "fetching"
    /\ \E evs \in PageEvents, tok \in Tokens :
        /\ Len(pages) + 1 >= MaxPages => ~Truthy(tok)
        /\ requests' = Append(requests, RequestQuery(nextPageToken))
        /\ pages' = Append(pages, [events |-> evs, nextPageToken |-> tok])
        /\ allEvents' = allEvents \o evs
        /\ nextPageToken' = tok
        /\ pc' = IF Truthy(tok) THEN "fetching" ELSE "returned"
    /\ response' = [ok |-> TRUE, status |-> 200]
    /\ UNCHANGED <<target, failure, fetched, rootItems, childWorkflowsMap, cursor,
                   attempted, httpStatus, parserVars>>

\* throw new Error(`Failed to fetch workflow history. Status: ${response.status}`):
\* a plain Error for every status.
HistoryError(status) == [kind |-> "Error", status |-> status]

\* Mutant of PageFail: the request that got a non-ok response is sent again.
PageFailRetrying ==
    /\ pc = "fetching"
    /\ \E status \in FailureStatuses :
        response' = [ok |-> FALSE, status |-> status]
    /\ requests' = Append(requests, RequestQuery(nextPageToken))
    /\ Len(requests) < MaxPages
    /\ UNCHANGED <<pc, failure, target, allEvents, nextPageToken, pages, fetched,
                   rootItems, childWorkflowsMap, cursor, attempted, httpStatus,
                   parserVars>>

\* One pass of the do-while whose response is not ok: getWorkflowData throws
\* an Error with the status in its message.
PageFail ==
    /\ pc = "fetching"
    /\ \E status \in FailureStatuses :
        /\ response' = [ok |-> FALSE, status |-> status]
        /\ failure' = HistoryError(status)
    /\ requests' = Append(requests, RequestQuery(nextPageToken))
    /\ pc' = "threw"
    /\ UNCHANGED <<target, allEvents, nextPageToken, pages, fetched, rootItems,
                   childWorkflowsMap, cursor, attempted, httpStatus, parserVars>>

\* The for-of loop moves to its next childWorkflow item and calls
\* getWorkflowData for it, or ends and the call resolves.
Advance(items, from) ==
    LET n == NextChild(items, from)
    IN  IF n = 0
        THEN /\ pc' = "resolved"
             /\ cursor' = Len(items) + 1
             /\ UNCHANGED <<target, allEvents, nextPageToken, pages, requests, fetched>>
        ELSE /\ pc' = "fetching"
             /\ cursor' = n
             /\ target' = items[n].workflowId
             /\ fetched' = Append(fetched, items[n].workflowId)
             /\ allEvents' = <<>>
             /\ nextPageToken' = Undefined
             /\ pages' = <<>>
             /\ requests' = <<>>

\* The await of the root's getWorkflowData is over (line 33): a rejection
\* rejects the call; otherwise the events are parsed (a parse that raises
\* rejects the call too) and the loop over the items starts.
ResumeRoot ==
    /\ pc \in {"returned", "threw"}
    /\ cursor = 0
    /\ LET st == parseTemporalHistory(allEvents)
       IN  IF pc = "threw"
           THEN /\ pc' = "rejected"
                /\ UNCHANGED <<target, allEvents, nextPageToken, pages, requests,
                               failure, fetched, rootItems, cursor>>
           ELSE IF st.thrown
           THEN /\ pc' = "rejected"
                /\ failure' = [kind |-> "TypeError", status |-> 0]
                /\ UNCHANGED <<target, allEvents, nextPageToken, pages, requests,
                               fetched, rootItems, cursor>>
           ELSE /\ rootItems' = st.list
                /\ failure' = failure
                /\ Advance(st.list, 0)
    /\ UNCHANGED <<childWorkflowsMap, attempted, response, httpStatus, parserVars>>

\* The await of a child's getWorkflowData is over (line 42): inside the try,
\* the child's events are parsed and stored under its id; a rejected fetch
\* or a parse that raises is caught and logged; then the loop goes on.
ResumeChild ==
    /\ pc \in {"returned", "threw"}
    /\ cursor > 0
    /\ LET childWorkflowId == rootItems[cursor].workflowId
           st == parseTemporalHistory(allEvents)
           ok == pc = "returned" /\ ~st.thrown
       IN  /\ childWorkflowsMap' =
                IF ok THEN [childWorkflowsMap EXCEPT
                              ![childWorkflowId] = [present |-> TRUE, items |-> st.list]]
                ELSE childWorkflowsMap
           /\ attempted' = Append(attempted, [workflowId |-> childWorkflowId, ok |-> ok])
           /\ failure' = NoFailure
           /\ Advance(rootItems, cursor)
    /\ UNCHANGED <<rootItems, response, httpStatus, parserVars>>

\* GET /workflow with id, namespace or runId missing: 400, and
\* getRootWorkflowData is not called.
BadRequest ==
    /\ pc = "idle"
    /\ httpStatus = 0
    /\ httpStatus' = 400
    /\ pc' = "answered"
    /\ UNCHANGED <<target, allEvents, nextPageToken, pages, requests, failure,
                   fetched, rootItems, childWorkflowsMap, cursor, attempted,
                   response, parserVars>>

\* error instanceof NotFoundException
IsNotFound(err) == err.kind = "NotFoundException"

\* GET /workflow after the await of getRootWorkflowData: 200 with the data,
\* or in the catch 404 for a NotFoundException and 500 for anything else.
Answer ==
    /\ pc \in {"resolved", "rejected"}
    /\ httpStatus = 0
    /\ httpStatus' = IF pc = "resolved" THEN 200
                     ELSE IF IsNotFound(failure) THEN 404 ELSE 500
    /\ UNCHANGED <<pc, target, allEvents, nextPageToken, pages, requests, failure,
                   fetched, rootItems, childWorkflowsMap, cursor, attempted,
                   response, parserVars>>

NextFetch ==
    \/ Call
    \/ PageOk
    \/ PageFail
    \/ ResumeRoot
    \/ ResumeChild
    \/ BadRequest
    \/ Answer

SpecFetch == Init /\ [][NextFetch]_vars


\* ============================================================= fetch claims

ChildIdsOf(items) ==
    {items[i].workflowId : i \in {k \in 1..Len(items) : items[k].type = "childWorkflow"}}

ChildKeys == {w \in AllWorkflowIds : childWorkflowsMap[w].present}

\* The child workflow ids of the root timeline in list order.
RECURSIVE ChildSeq(_, _)
ChildSeq(items, k) ==
    IF k > Len(items) THEN <<>>
    ELSE IF items[k].type = "childWorkflow"
         THEN <<items[k].workflowId>> \o ChildSeq(items, k + 1)
         ELSE ChildSeq(items, k + 1)

\* C8 (without its last clause): when the call resolves, every childWorkflow
\* item of the root timeline was attempted, in order, also after a failed
\* one, and the keys of the children mapping are exactly the ids whose fetch
\* and parse succeeded.
C8_ChildFailuresIsolated ==
    pc = "resolved" =>
        /\ [k \in 1..Len(attempted) |-> attempted[k].workflowId] = ChildSeq(rootItems, 1)
        /\ ChildKeys = {attempted[k].workflowId :
                           k \in {n \in 1..Len(attempted) : attempted[n].ok}}

\* C8: child failures are isolated as above, and the call as a whole fails
\* only when the fetch of the root execution failed.
C8_FailsOnlyOnRootFetch ==
    /\ C8_ChildFailuresIsolated
    /\ pc = "rejected" => failure.kind = "Error"

\* C9: getWorkflowData is called for the root first and then only, once
\* each, for the workflow ids of the childWorkflow items of the root's own
\* timeline; every key of the children mapping is such an id.
C9_OnlyRootChildrenFetched ==
    /\ fetched # <<>> => fetched[1] = RootId
    /\ \A k \in 2..Len(fetched) : fetched[k] \in ChildIdsOf(rootItems)
    /\ \A k, m \in 2..Len(fetched) : fetched[k] = fetched[m] => k = m
    /\ ChildKeys \subseteq ChildIdsOf(rootItems)
    /\ pc = "resolved" => Len(fetched) = 1 + Cardinality(ChildIdsOf(rootItems))

\* C9 witness: the call resolved with a root timeline holding a plain
\* workflow item and one childWorkflow item, whose own timeline holds a
\* childWorkflow item (a grandchild) that was not fetched.
C9_Witness ==
    /\ pc = "resolved"
    /\ \E i \in 1..Len(rootItems) : rootItems[i].type = "workflow"
    /\ \E w \in ChildKeys :
         \E g \in ChildIdsOf(childWorkflowsMap[w].items) :
             /\ g \notin ChildIdsOf(rootItems)
             /\ \A k \in 1..Len(fetched) : fetched[k] # g

RECURSIVE Flatten(_, _)
Flatten(ps, k) ==
    IF k > Len(ps) THEN <<>> ELSE ps[k].events \o Flatten(ps, k + 1)

\* C10: while getWorkflowData runs and when it returns, the events it holds
\* are those of the pages served, in page order; it sent one request per
\* page, the first without a token and the k-th carrying the token of page
\* k-1; every page before the last had a token, and it returns at the first
\* page without one (absent: null, missing or empty, which the loop's test
\* does not tell apart).
C10_PagesInOrder ==
    pc \in {"fetching", "returned"} =>
        /\ allEvents = Flatten(pages, 1)
        /\ Len(requests) = Len(pages)
        /\ Len(requests) >= 1 => requests[1] = ""
        /\ \A k \in 2..Len(requests) :
              QueryToken(requests[k]) = pages[k - 1].nextPageToken
        /\ \A k \in 1..(Len(pages) - 1) : Truthy(pages[k].nextPageToken)
        /\ Len(pages) >= 1 =>
              (pc = "returned" <=> ~Truthy(pages[Len(pages)].nextPageToken))
        /\ Len(pages) = 0 => pc = "fetching"

\* C10 witness: three pages with events were served, the first two with a
\* token and the last without, and getWorkflowData returned.
C10_Witness ==
    /\ pc = "returned"
    /\ Len(pages) = 3
    /\ Len(allEvents) >= 3
    /\ pages[3].nextPageToken = Undefined

\* C11: a page response that is not a success makes getWorkflowData fail at
\* once with an error carrying the upstream's status; the failed request is
\* not sent again, no further page is requested for that execution, and the
\* events accumulated from earlier pages are not returned: neither the root
\* timeline nor the children mapping receives anything for it.
C11_FailedPageEndsFetch ==
    [][ /\ (pc = "fetching" /\ ~response'.ok) =>
              /\ pc' = "threw"
              /\ failure'.kind = "Error"
              /\ failure'.status = response'.status
              /\ requests' = Append(requests, RequestQuery(nextPageToken))
              /\ allEvents' = allEvents
        /\ pc = "threw" =>
              /\ pc' \in {"rejected", "resolved", "fetching"}
              /\ pc' = "fetching" => (target' # target /\ requests' = <<>>)
              /\ pc' # "fetching" => requests' = requests
              /\ rootItems' = rootItems
              /\ childWorkflowsMap' = childWorkflowsMap
              /\ cursor = 0 => pc' = "rejected"
    ]_vars

\* C11 witness: a fetch failed on its second page, after a first page that
\* delivered events, and nothing of it was returned.
C11_Witness ==
    /\ pc = "threw"
    /\ ~response.ok
    /\ failure.status = response.status
    /\ Len(pages) >= 1 /\ allEvents # <<>>
    /\ Len(requests) = Len(pages) + 1

\* C12: when the upstream reports that the root execution does not exist
\* (status 404 on a request for the root), the call fails with a
\* NotFoundException and GET /workflow answers 404; every other failure of
\* the call is answered with 500.
C12_RootNotFoundAnswers404 ==
    (pc = "rejected" /\ httpStatus # 0) =>
        IF ~response.ok /\ response.status = 404
        THEN IsNotFound(failure) /\ httpStatus = 404
        ELSE httpStatus = 500


\* ============================================================ parser claims

IsWorkflowItem(item) == item.type \in {"workflow", "childWorkflow"}

IsActivityItem(item) == item.type = "activity"

Positions == 1..Len(chronologicalList)

\* What makes an entry of the list the same object before and after a step:
\* its kind, its ids and the event that created it.
Identity(item) ==
    <<item.type, item.workflowId, item.activityId, item.relatedEventIds[1]>>

\* C1: the output list holds at most one workflow/childWorkflow item per
\* workflow id, whatever events mentioned the id.
C1_OneItemPerWorkflowId ==
    \A i, j \in Positions :
        /\ IsWorkflowItem(chronologicalList[i])
        /\ IsWorkflowItem(chronologicalList[j])
        /\ chronologicalList[i].workflowId = chronologicalList[j].workflowId
        => i = j

\* C2: once a workflow/childWorkflow item has a terminal status, no later
\* event changes its status or its end time.
C2_TerminalWorkflowIsFinal ==
    [][\A i \in Positions :
          /\ IsWorkflowItem(chronologicalList[i])
          /\ chronologicalList[i].status \in WorkflowTerminalStatuses
          => /\ chronologicalList'[i].status = chronologicalList[i].status
             /\ chronologicalList'[i].endTime = chronologicalList[i].endTime]_vars

\* C3: event times increase in log order, and every item that has both a
\* start time and an end time has start time <= end time.
C3_StartBeforeEnd ==
    \A i \in Positions :
        /\ chronologicalList[i].startTime # 0
        /\ chronologicalList[i].endTime # 0
        => chronologicalList[i].startTime <= chronologicalList[i].endTime

ActivityUpdateKinds == {"ACTIVITY_TASK_STARTED"} \cup ActivityTerminalKinds

\* The activity items of the scope top with activity id x that an event of
\* kind k could still update: SCHEDULED ones for ACTIVITY_TASK_STARTED,
\* STARTED or SCHEDULED ones for a terminal event.
OpenWithId(k, x) ==
    {i \in Positions :
        /\ IsActivityItem(chronologicalList[i])
        /\ Len(workflowStack) > 0
        /\ chronologicalList[i].workflowId = workflowStack[Len(workflowStack)]
        /\ chronologicalList[i].activityId = x
        /\ chronologicalList[i].status \in
             (IF k = "ACTIVITY_TASK_STARTED" THEN {"SCHEDULED"}
              ELSE {"STARTED", "SCHEDULED"})}

\* C4: an ACTIVITY_TASK_STARTED or activity terminal event that belongs to
\* activity id X of the workflow in scope, while an item (scope top, X) is
\* open, never changes the status or the times of an activity item whose
\* activity id is not X.
C4_OtherActivityIdsUntouched ==
    [][/\ event'.eventType \in ActivityUpdateKinds
       /\ OpenWithId(event'.eventType, event'.activityId) # {}
       => \A i \in Positions :
              /\ IsActivityItem(chronologicalList[i])
              /\ chronologicalList[i].activityId # event'.activityId
              => /\ chronologicalList'[i].status = chronologicalList[i].status
                 /\ chronologicalList'[i].startTime = chronologicalList[i].startTime
                 /\ chronologicalList'[i].endTime = chronologicalList[i].endTime]_vars

\* The open activity items of the scope top, by position.
OpenOfTop ==
    {i \in Positions :
        /\ IsActivityItem(chronologicalList[i])
        /\ Len(workflowStack) > 0
        /\ chronologicalList[i].workflowId = workflowStack[Len(workflowStack)]
        /\ chronologicalList[i].status \in {"STARTED", "SCHEDULED"}}

\* C5: an activity terminal event updates exactly the open (STARTED or
\* SCHEDULED) activity item of the scope top at the highest position: that
\* item gets the status of the event kind and the event time as end time,
\* every other item is unchanged; with no such item nothing changes.
C5_TerminalClosesLastOpen ==
    [][event'.eventType \in ActivityTerminalKinds =>
          /\ workflowStack' = workflowStack
          /\ workflowMap' = workflowMap
          /\ IF OpenOfTop = {}
             THEN chronologicalList' = chronologicalList
             ELSE LET last == CHOOSE i \in OpenOfTop : \A j \in OpenOfTop : j <= i
                  IN  chronologicalList' =
                        [chronologicalList EXCEPT ![last] =
                            [@ EXCEPT
                               !.status = ActivityTerminalStatus(event'.eventType),
                               !.endTime = event'.eventTime,
                               !.relatedEventIds = Append(@, event'.eventId)]]]_vars

\* C5 witness: two activities with the same id of the same workflow were
\* open together, and the terminal event just processed closed the later
\* one and left the earlier one open.
C5_Witness ==
    /\ event.eventType \in ActivityTerminalKinds
    /\ \E i, j \in Positions :
        /\ i < j
        /\ IsActivityItem(chronologicalList[i])
        /\ IsActivityItem(chronologicalList[j])
        /\ chronologicalList[i].activityId = chronologicalList[j].activityId
        /\ chronologicalList[i].workflowId = chronologicalList[j].workflowId
        /\ chronologicalList[i].status \in {"STARTED", "SCHEDULED"}
        /\ chronologicalList[j].status = ActivityTerminalStatus(event.eventType)
        /\ chronologicalList[j].endTime = event.eventTime

\* C6: the output list is append-only: every step keeps the items it had at
\* their positions, appends at most one item, and an appended item is one
\* created by the event of that step; so the list is in creation order.
C6_AppendOnly ==
    [][/\ Len(chronologicalList') \in {Len(chronologicalList), Len(chronologicalList) + 1}
       /\ \A i \in Positions :
            /\ Identity(chronologicalList'[i]) = Identity(chronologicalList[i])
            /\ SubSeq(chronologicalList'[i].relatedEventIds, 1,
                      Len(chronologicalList[i].relatedEventIds))
                 = chronologicalList[i].relatedEventIds
       /\ Len(chronologicalList') = Len(chronologicalList) + 1
            => chronologicalList'[Len(chronologicalList')].relatedEventIds
                 = <<event'.eventId>>
       /\ \A i, j \in 1..Len(chronologicalList') :
            i < j => chronologicalList'[i].relatedEventIds[1]
                       < chronologicalList'[j].relatedEventIds[1]]_vars

\* C6 witness: an item that later events updated twice is still at its
\* position, followed by an item created after it.
C6_Witness ==
    \E i \in Positions :
        /\ Len(chronologicalList[i].relatedEventIds) >= 3
        /\ i < Len(chronologicalList)

\* C7: a workflow terminal event removes exactly the top entry of the scope
\* stack (none from an empty stack), whether or not it found a workflow item;
\* every other event leaves the entries there were on the stack.
C7_TerminalPopsOne ==
    [][IF event'.eventType \in WorkflowTerminalKinds
       THEN /\ Len(workflowStack) > 0 =>
                 workflowStack' = SubSeq(workflowStack, 1, Len(workflowStack) - 1)
            /\ Len(workflowStack) = 0 => workflowStack' = <<>>
       ELSE /\ Len(workflowStack') >= Len(workflowStack)
            /\ SubSeq(workflowStack', 1, Len(workflowStack)) = workflowStack]_vars

\* C7 witness: a terminal event found no workflow item (the stack was
\* already empty, after an earlier terminal event popped the only entry and
\* closed its item) and left the stack empty.
C7_Witness ==
    /\ event.eventType \in WorkflowTerminalKinds
    /\ workflowStack = <<>>
    /\ \E i \in Positions :
        /\ chronologicalList[i].status \in WorkflowTerminalStatuses
        /\ IsWorkflowItem(chronologicalList[i])
    /\ \A i \in Positions : event.eventId \notin
          {chronologicalList[i].relatedEventIds[k] :
              k \in 1..Len(chronologicalList[i].relatedEventIds)}

\* The positions of the workflow/childWorkflow items of workflow id w.
ItemsFor(list, w) ==
    {i \in 1..Len(list) : IsWorkflowItem(list[i]) /\ list[i].workflowId = w}

\* All entries of the list but the one at position p are the same after the step.
OthersUnchanged(p) ==
    /\ Len(chronologicalList') = Len(chronologicalList)
    /\ \A i \in Positions : i # p => chronologicalList'[i] = chronologicalList[i]

\* C13: StartChildWorkflowExecutionInitiated(W) for an id without an entry
\* appends one RUNNING childWorkflow item for W and leaves the stack alone;
\* a ChildWorkflowExecutionStarted(W) that finds this item sets its start
\* time in place, appends nothing and pushes nothing; a
\* ChildWorkflowExecutionCompleted(W) that finds it sets its status to
\* COMPLETED and its end time; through these events W keeps exactly one item.
C13_PlaceholderReused ==
    [][ event'.attrs = "full" =>
          LET w == event'.workflowId
              at == Lookup(workflowMap, w)
          IN  /\ (event'.eventType = "START_CHILD_WORKFLOW_EXECUTION_INITIATED" /\ at = 0) =>
                    /\ chronologicalList' =
                          Append(chronologicalList, chronologicalList'[Len(chronologicalList')])
                    /\ LET placeholder == chronologicalList'[Len(chronologicalList')]
                       IN  /\ placeholder.type = "childWorkflow"
                           /\ placeholder.workflowId = w
                           /\ placeholder.status = "RUNNING"
                    /\ ItemsFor(chronologicalList', w) = {Len(chronologicalList')}
                    /\ workflowStack' = workflowStack
              /\ (/\ event'.eventType = "CHILD_WORKFLOW_EXECUTION_STARTED"
                  /\ at # 0 /\ chronologicalList[at].type = "childWorkflow") =>
                    /\ OthersUnchanged(at)
                    /\ Identity(chronologicalList'[at]) = Identity(chronologicalList[at])
                    /\ chronologicalList'[at].startTime = event'.eventTime
                    /\ chronologicalList'[at].status = chronologicalList[at].status
                    /\ ItemsFor(chronologicalList', w) = ItemsFor(chronologicalList, w)
                    /\ workflowMap' = workflowMap
                    /\ workflowStack' = workflowStack
              /\ (/\ event'.eventType = "CHILD_WORKFLOW_EXECUTION_COMPLETED"
                  /\ at # 0 /\ chronologicalList[at].type = "childWorkflow") =>
                    /\ OthersUnchanged(at)
                    /\ Identity(chronologicalList'[at]) = Identity(chronologicalList[at])
                    /\ chronologicalList'[at].status = "COMPLETED"
                    /\ chronologicalList'[at].endTime = event'.eventTime
                    /\ ItemsFor(chronologicalList', w) = ItemsFor(chronologicalList, w)
                    /\ workflowStack' = workflowStack
    ]_vars

\* C13 witness: initiated, started and completed were processed for one id in
\* that order; the log ends with a single COMPLETED childWorkflow item for it
\* that was never on the stack.
C13_Witness ==
    /\ event.eventType = "CHILD_WORKFLOW_EXECUTION_COMPLETED"
    /\ event.eventId = 3
    /\ workflowStack = <<>>
    /\ \E i \in Positions :
        /\ ItemsFor(chronologicalList, event.workflowId) = {i}
        /\ chronologicalList[i].type = "childWorkflow"
        /\ chronologicalList[i].status = "COMPLETED"
        /\ chronologicalList[i].relatedEventIds = <<1, 2, 3>>
        /\ chronologicalList[i].startTime = 2
        /\ chronologicalList[i].endTime = 3

\* The positions of the log's events of kind k for activity id x.
LogEventsOf(k, x) ==
    {i \in 1..Len(history) : history[i].eventType = k /\ history[i].activityId = x}

\* The events of activity id x in the log are exactly a scheduled, a started
\* and a completed one, in that order.
RanToCompletion(x) ==
    \E i, j, k \in 1..Len(history) :
        /\ i < j /\ j < k
        /\ LogEventsOf("ACTIVITY_TASK_SCHEDULED", x) = {i}
        /\ LogEventsOf("ACTIVITY_TASK_STARTED", x) = {j}
        /\ LogEventsOf("ACTIVITY_TASK_COMPLETED", x) = {k}
        /\ \A t \in ActivityTerminalKinds \ {"ACTIVITY_TASK_COMPLETED"} :
              LogEventsOf(t, x) = {}

\* C14: at the end of a well-formed log of workflow A, the item of A has the
\* status of the final event and its time as end time, every activity that
\* was scheduled, started and completed in that order is a COMPLETED item
\* owned by A, and the scope stack is empty.
C14_WellFormedLogCloses ==
    (history # <<>> /\ event.eventType \in WorkflowTerminalKinds) =>
        LET A == history[1].workflowId
        IN  /\ \E i \in Positions :
                 /\ ItemsFor(chronologicalList, A) = {i}
                 /\ chronologicalList[i].status = WorkflowTerminalStatus(event.eventType)
                 /\ chronologicalList[i].endTime = event.eventTime
            /\ \A x \in ActivityIds : RanToCompletion(x) =>
                 \E i \in Positions :
                     /\ chronologicalList[i].type = "activity"
                     /\ chronologicalList[i].activityId = x
                     /\ chronologicalList[i].status = "COMPLETED"
                     /\ chronologicalList[i].workflowId = A
            /\ workflowStack = <<>>

\* The positions of the SCHEDULED activity items of the workflow on top of
\* the stack.
ScheduledOfTop ==
    {i \in Positions : /\ chronologicalList[i].type = "activity"
                       /\ chronologicalList[i].workflowId = Top(workflowStack)
                       /\ chronologicalList[i].status = "SCHEDULED"}

\* C15: an ActivityTaskStarted event processed when the top workflow has no
\* SCHEDULED activity item (or the stack is empty) changes no item, appends
\* nothing and leaves the stack alone; otherwise (the event carrying its
\* attributes) it sets STARTED and the event's time as start time on the last
\* SCHEDULED activity item of the top workflow and changes nothing else.
C15_StartedMarksLastScheduled ==
    [][ event'.eventType = "ACTIVITY_TASK_STARTED" =>
          /\ workflowStack' = workflowStack
          /\ workflowMap' = workflowMap
          /\ ~thrown'
          /\ ScheduledOfTop = {} => chronologicalList' = chronologicalList
          /\ (ScheduledOfTop # {} /\ event'.attrs = "full") =>
                LET last == CHOOSE i \in ScheduledOfTop : \A j \in ScheduledOfTop : j <= i
                IN  chronologicalList' =
                      [chronologicalList EXCEPT
                         ![last] = [@ EXCEPT
                                      !.status = "STARTED",
                                      !.startTime = event'.eventTime,
                                      !.relatedEventIds = Append(@, event'.eventId)]]
    ]_vars

\* C15 witness: the top workflow had two SCHEDULED activities when an
\* ActivityTaskStarted was processed; the later one is STARTED with the
\* event's time, the earlier one is still SCHEDULED.
C15_Witness ==
    /\ event.eventType = "ACTIVITY_TASK_STARTED"
    /\ event.attrs = "full"
    /\ \E i, j \in Positions :
        /\ i < j
        /\ chronologicalList[i].type = "activity"
        /\ chronologicalList[j].type = "activity"
        /\ chronologicalList[i].workflowId = Top(workflowStack)
        /\ chronologicalList[j].workflowId = Top(workflowStack)
        /\ chronologicalList[i].status = "SCHEDULED"
        /\ chronologicalList[j].status = "STARTED"
        /\ chronologicalList[j].startTime = event.eventTime

\* The kinds the switch has a case for.
RecognizedKinds ==
    {"WORKFLOW_EXECUTION_STARTED", "ACTIVITY_TASK_SCHEDULED", "ACTIVITY_TASK_STARTED",
     "CHILD_WORKFLOW_EXECUTION_COMPLETED", "CHILD_WORKFLOW_EXECUTION_STARTED",
     "START_CHILD_WORKFLOW_EXECUTION_INITIATED"}
        \cup WorkflowTerminalKinds \cup ActivityTerminalKinds

\* C16: no event makes the parser raise; an event of an unrecognized kind,
\* and an event of a recognized kind whose attributes, or a field of them
\* such as the workflow type or the activity type, are missing, leaves the
\* list, every item, the registry and the stack as they were.
C16_MalformedEventsSkipped ==
    [][ /\ ~thrown'
        /\ (event'.eventType \notin RecognizedKinds \/ event'.attrs # "full") =>
              /\ chronologicalList' = chronologicalList
              /\ workflowMap' = workflowMap
              /\ workflowStack' = workflowStack
    ]_vars

\* C17: a ChildWorkflowExecutionCompleted event never pushes, pops or
\* appends; when it carries workflow id W and an item for W exists, that
\* item gets status COMPLETED and the event's time as end time whatever is
\* on top of the stack, and no other item changes; when no item for W exists
\* nothing changes.
C17_ChildCompletedByIdOnly ==
    [][ event'.eventType = "CHILD_WORKFLOW_EXECUTION_COMPLETED" =>
          /\ workflowStack' = workflowStack
          /\ workflowMap' = workflowMap
          /\ Len(chronologicalList') = Len(chronologicalList)
          /\ event'.attrs = "full" =>
                LET W == event'.workflowId
                IN  IF ItemsFor(chronologicalList, W) = {}
                    THEN chronologicalList' = chronologicalList
                    ELSE \E i \in ItemsFor(chronologicalList, W) :
                            chronologicalList' =
                              [chronologicalList EXCEPT
                                 ![i] = [@ EXCEPT
                                           !.status = "COMPLETED",
                                           !.endTime = event'.eventTime,
                                           !.relatedEventIds = Append(@, event'.eventId)]]
    ]_vars

\* C17 witness: a child was completed while another workflow was on top of
\* the stack, which still is.
C17_Witness ==
    /\ event.eventType = "CHILD_WORKFLOW_EXECUTION_COMPLETED"
    /\ event.attrs = "full"
    /\ workflowStack # <<>>
    /\ Top(workflowStack) # event.workflowId
    /\ \E i \in ItemsFor(chronologicalList, event.workflowId) :
        /\ chronologicalList[i].status = "COMPLETED"
        /\ chronologicalList[i].endTime = event.eventTime

ActivityKinds ==
    {"ACTIVITY_TASK_SCHEDULED", "ACTIVITY_TASK_STARTED"} \cup ActivityTerminalKinds

\* C19: in every step an activity item keeps its status or moves from
\* SCHEDULED to STARTED or from SCHEDULED or STARTED to a terminal status; an
\* activity item with a terminal status is left as it is by every later
\* event; and an activity event changes at most one item of the list.
C19_ActivityStatusForward ==
    [][ /\ Len(chronologicalList') >= Len(chronologicalList)
        /\ \A i \in Positions : IsActivityItem(chronologicalList[i]) =>
              LET old == chronologicalList[i]
                  new == chronologicalList'[i]
              IN  /\ Identity(new) = Identity(old)
                  /\ \/ new.status = old.status
                     \/ old.status = "SCHEDULED" /\ new.status = "STARTED"
                     \/ /\ old.status \in {"SCHEDULED", "STARTED"}
                        /\ new.status \in ActivityTerminalStatuses
                  /\ old.status \in ActivityTerminalStatuses => new = old
        /\ event'.eventType \in ActivityKinds =>
              Cardinality({i \in Positions :
                             chronologicalList'[i] # chronologicalList[i]}) <= 1
    ]_vars

\* C19 witness: an activity went from SCHEDULED to STARTED to a terminal
\* status, one event each.
C19_Witness ==
    /\ event.eventType \in ActivityTerminalKinds
    /\ \E i \in Positions :
        /\ IsActivityItem(chronologicalList[i])
        /\ chronologicalList[i].status = ActivityTerminalStatus(event.eventType)
        /\ Len(chronologicalList[i].relatedEventIds) = 3
        /\ chronologicalList[i].relatedEventIds[3] = event.eventId
        /\ chronologicalList[i].scheduleTime < chronologicalList[i].startTime
        /\ chronologicalList[i].startTime < chronologicalList[i].endTime

\* Every id on the stack is the id of a workflow/childWorkflow item of the list.
StackIdsHaveItems ==
    \A k \in 1..Len(workflowStack) :
        ItemsFor(chronologicalList, workflowStack[k]) # {}

\* Every activity item comes after a workflow/childWorkflow item of its
\* owning workflow id.
ActivitiesFollowOwner ==
    \A i \in Positions : IsActivityItem(chronologicalList[i]) =>
        \E j \in ItemsFor(chronologicalList, chronologicalList[i].workflowId) : j < i

\* C20: after every step of the parse, every id on the stack has a
\* workflow/childWorkflow item in the list and every activity item is
\* preceded in the list by a workflow/childWorkflow item of its owner id;
\* an ActivityTaskScheduled event processed with an empty stack creates no
\* item.
C20_ScopeAndOwnersExist ==
    [][ /\ StackIdsHaveItems'
        /\ ActivitiesFollowOwner'
        /\ (event'.eventType = "ACTIVITY_TASK_SCHEDULED" /\ workflowStack = <<>>) =>
              /\ chronologicalList' = chronologicalList
              /\ workflowStack' = workflowStack
    ]_vars

\* C20 witness: an ActivityTaskScheduled carrying its attributes was
\* processed with an empty stack, after a workflow that owns an activity item
\* had ended, and created no item.
C20_Witness ==
    /\ event.eventType = "ACTIVITY_TASK_SCHEDULED"
    /\ event.attrs = "full"
    /\ workflowStack = <<>>
    /\ \E i \in Positions : IsActivityItem(chronologicalList[i])
    /\ \A i \in Positions : chronologicalList[i].relatedEventIds[1] # event.eventId

====
